---- MODULE Spec2Model ----
(***************************************************************************)
(* Create-template handler of resume-builder-api.                          *)
(*                                                                         *)
(*   src/backendSrc/apps/posts/api/createTemplates.ts  size-gated handler  *)
(*   src/unnamed/part_000                              ORM-insert handler  *)
(*                                                                         *)
(* Text is modelled as a sequence of runs [c |-> code unit, n |-> count].  *)
(* The code unit "x" is the only one that occurs with n > 1 (it is the     *)
(* filler that lets a text reach the 900 KiB ceiling); two "x" runs are    *)
(* never adjacent, so equal strings have equal representations.  A code    *)
(* unit is named by its character when that is printable ASCII (but the    *)
(* grave accent, which a TLA+ string cannot hold) and by "U+hhhh", its     *)
(* value in four hexadecimal digits, otherwise; the halves of a surrogate  *)
(* pair are two code units.                                                *)
(*                                                                         *)
(* A value is a record [t, s, n, e, keys, kids]: t is its kind, s the text  *)
(* of a string, keys the property names of an object in property order,    *)
(* kids the elements or property values.  A number of kind "number" is     *)
(* n * 10^e, with n an integer that does not end in 0 (zero is 0 * 10^0);  *)
(* that covers the finite numbers of up to nine significant digits in the  *)
(* normal range of a double, for which (n, e) is the shortest decimal form.*)
(* The other numbers that the text of a body can denote have the kinds     *)
(* "-0", "Infinity" and "-Infinity".                                       *)
(***************************************************************************)
EXTENDS Integers, Sequences, FiniteSets, TLC

\* ------------------------------------------------------------------ text

Ch(c) == [c |-> c, n |-> 1]
Run(c, k) == [c |-> c, n |-> k]
T(chars) == [i \in DOMAIN chars |-> Ch(chars[i])]

RECURSIVE TextLen(_)
TextLen(text) ==
  IF text = <<>> THEN 0 ELSE Head(text).n + TextLen(Tail(text))

HexValue(h) ==
  CASE h = "0" -> 0 [] h = "1" -> 1 [] h = "2" -> 2 [] h = "3" -> 3
    [] h = "4" -> 4 [] h = "5" -> 5 [] h = "6" -> 6 [] h = "7" -> 7
    [] h = "8" -> 8 [] h = "9" -> 9
    [] h \in {"a", "A"} -> 10 [] h \in {"b", "B"} -> 11 [] h \in {"c", "C"} -> 12
    [] h \in {"d", "D"} -> 13 [] h \in {"e", "E"} -> 14 [] h \in {"f", "F"} -> 15

\* The value of the code unit named "U+hhhh".
HexCode(c) ==
  4096 * HexValue(SubSeq(c, 3, 3)) + 256 * HexValue(SubSeq(c, 4, 4))
    + 16 * HexValue(SubSeq(c, 5, 5)) + HexValue(SubSeq(c, 6, 6))

IsHighSurrogate(c) == Len(c) = 6 /\ HexCode(c) \in 55296..56319
IsLowSurrogate(c) == Len(c) = 6 /\ HexCode(c) \in 56320..57343

\* UTF-8 length of one UTF-16 code unit standing alone (Blob encodes its string
\* parts as UTF-8): one byte below U+0080, two below U+0800, three from there
\* on; a lone surrogate is encoded as U+FFFD, three bytes.
Utf8Bytes(c) ==
  IF Len(c) = 1 THEN 1
  ELSE IF HexCode(c) < 128 THEN 1
  ELSE IF HexCode(c) < 2048 THEN 2
  ELSE 3

\* UTF-8 length of a text: the sum over its code units, but a high surrogate
\* followed by a low one is one character of four bytes.
RECURSIVE ByteLen(_)
ByteLen(text) ==
  IF text = <<>> THEN 0
  ELSE Head(text).n * Utf8Bytes(Head(text).c)
       - (IF Len(text) > 1 /\ IsHighSurrogate(text[1].c) /\ IsLowSurrogate(text[2].c)
          THEN 2 ELSE 0)
       + ByteLen(Tail(text))

StartsWith(text, pat) ==
  /\ Len(text) >= Len(pat)
  /\ SubSeq(text, 1, Len(pat)) = pat

RECURSIVE Contains(_, _)
Contains(text, pat) ==
  IF Len(text) < Len(pat) THEN FALSE
  ELSE StartsWith(text, pat) \/ Contains(Tail(text), pat)

\* String.prototype.replace with a global regular expression of literal
\* characters: leftmost matches, left to right, never rescanning the replacement.
RECURSIVE ReplaceAll(_, _, _)
ReplaceAll(text, pat, repl) ==
  IF Len(text) < Len(pat) THEN text
  ELSE IF StartsWith(text, pat)
       THEN repl \o ReplaceAll(SubSeq(text, Len(pat) + 1, Len(text)), pat, repl)
       ELSE <<Head(text)>> \o ReplaceAll(Tail(text), pat, repl)

OpenTag == T(<<"<", "s", "c", "r", "i", "p", "t", ">">>)
CloseTag == T(<<"<", "/", "s", "c", "r", "i", "p", "t", ">">>)
OpenEsc == T(<<"&", "l", "t", ";", "s", "c", "r", "i", "p", "t", "&", "g", "t", ";">>)
CloseEsc == T(<<"&", "l", "t", ";", "/", "s", "c", "r", "i", "p", "t", "&", "g", "t", ";">>)

\* ------------------------------------------------------------ JSON values

JVal(t, s, n, e, keys, kids) ==
  [t |-> t, s |-> s, n |-> n, e |-> e, keys |-> keys, kids |-> kids]
JUndefined == JVal("undefined", <<>>, 0, 0, <<>>, <<>>)
JNull == JVal("null", <<>>, 0, 0, <<>>, <<>>)
JTrue == JVal("true", <<>>, 0, 0, <<>>, <<>>)
JFalse == JVal("false", <<>>, 0, 0, <<>>, <<>>)
\* The number n * 10^e.
RECURSIVE JDec(_, _)
JDec(n, e) ==
  IF n = 0 THEN JVal("number", <<>>, 0, 0, <<>>, <<>>)
  ELSE IF n % 10 = 0 THEN JDec(n \div 10, e + 1)
  ELSE JVal("number", <<>>, n, e, <<>>, <<>>)
JNum(n) == JDec(n, 0)
JNegZero == JVal("-0", <<>>, 0, 0, <<>>, <<>>)
JInfinity == JVal("Infinity", <<>>, 0, 0, <<>>, <<>>)
JNegInfinity == JVal("-Infinity", <<>>, 0, 0, <<>>, <<>>)
JStr(s) == JVal("string", s, 0, 0, <<>>, <<>>)
JArr(kids) == JVal("array", <<>>, 0, 0, <<>>, kids)
JObj(keys, kids) == JVal("object", <<>>, 0, 0, keys, kids)

ElementScript ==
  T(<<"e", "l", "e", "m", "e", "n", "t", "S", "c", "r", "i", "p", "t">>)
ProtoKey == T(<<"_", "_", "p", "r", "o", "t", "o", "_", "_">>)

RECURSIVE IndexOf(_, _)
IndexOf(seq, e) ==
  IF seq = <<>> THEN 0
  ELSE IF Head(seq) = e THEN 1
  ELSE LET i == IndexOf(Tail(seq), e) IN IF i = 0 THEN 0 ELSE i + 1

\* The largest array index, 2^32 - 2.
MaxIndex == T(<<"4", "2", "9", "4", "9", "6", "7", "2", "9", "4">>)

\* a < b, for two texts of decimal digits without leading zeros.
IndexLess(a, b) ==
  \/ Len(a) < Len(b)
  \/ /\ Len(a) = Len(b)
     /\ \E i \in DOMAIN a :
          /\ SubSeq(a, 1, i - 1) = SubSeq(b, 1, i - 1)
          /\ HexValue(a[i].c) < HexValue(b[i].c)

\* An array index: the canonical decimal text of an integer from 0 to 2^32 - 2.
IsIndex(k) ==
  /\ Len(k) \in 1..10
  /\ \A i \in DOMAIN k :
       k[i].n = 1 /\ k[i].c \in {"0", "1", "2", "3", "4", "5", "6", "7", "8", "9"}
  /\ Len(k) > 1 => k[1].c # "0"
  /\ ~IndexLess(MaxIndex, k)

\* OrdinaryOwnPropertyKeys: the properties whose key is an array index, in
\* ascending order of the index, then the others in the order of their creation.
PropertyOrder(obj) ==
  LET idx == {j \in DOMAIN obj.keys : IsIndex(obj.keys[j])}
      place(j) ==
        IF j \in idx
        THEN 1 + Cardinality({h \in idx : IndexLess(obj.keys[h], obj.keys[j])})
        ELSE Cardinality(idx) + Cardinality({h \in DOMAIN obj.keys \ idx : h <= j})
      at == [p \in DOMAIN obj.keys |-> CHOOSE j \in DOMAIN obj.keys : place(j) = p]
  IN IF idx = {} THEN obj
     ELSE JObj([p \in DOMAIN obj.keys |-> obj.keys[at[p]]],
               [p \in DOMAIN obj.keys |-> obj.kids[at[p]]])

\* CreateDataProperty: an existing own property keeps its place and takes the
\* new value; a new one is created last, and is enumerated where its key puts it.
DefineProperty(output, k, v) ==
  LET i == IndexOf(output.keys, k) IN
  PropertyOrder(IF i = 0
                THEN JObj(Append(output.keys, k), Append(output.kids, v))
                ELSE JObj(output.keys, [output.kids EXCEPT ![i] = v]))

\* output[k] = v on an object literal {}: an ordinary key becomes (or
\* overwrites) an own property; "__proto__" reaches the inherited accessor of
\* Object.prototype, which changes the prototype and creates no own property,
\* so neither Object.entries nor JSON.stringify sees it afterwards.
SetProperty(output, k, v) ==
  IF k = ProtoKey THEN output ELSE DefineProperty(output, k, v)

RECURSIVE sanitize(_)
RECURSIVE sanitizeEntries(_, _, _)
sanitizeEntries(input, i, output) ==
  IF i > Len(input.keys) THEN output
  ELSE IF input.keys[i] = ElementScript
       THEN sanitizeEntries(input, i + 1, output)
       ELSE sanitizeEntries(input, i + 1,
              SetProperty(output, input.keys[i], sanitize(input.kids[i])))

sanitize(value) ==
  IF value.t = "array"
  THEN JArr([i \in DOMAIN value.kids |-> sanitize(value.kids[i])])
  ELSE IF value.t = "object"
       THEN sanitizeEntries(value, 1, JObj(<<>>, <<>>))
       ELSE value

\* --------------------------------------------------------- JSON.stringify

Digit(d) == <<"0", "1", "2", "3", "4", "5", "6", "7", "8", "9">>[d + 1]

RECURSIVE NatToText(_)
NatToText(n) ==
  IF n < 10 THEN <<Ch(Digit(n))>>
  ELSE NatToText(n \div 10) \o <<Ch(Digit(n % 10))>>

RECURSIVE Repeat(_, _)
Repeat(text, k) == IF k = 0 THEN <<>> ELSE text \o Repeat(text, k - 1)

\* Number::toString of n * 10^e: with the k digits of n and the decimal point
\* after p = k + e of them, plain digits (padded with zeros, or with a point
\* inside, or after "0." and zeros) while -6 < p <= 21, and exponent notation
\* otherwise.
NumberToText(n, e) ==
  LET D == NatToText(IF n < 0 THEN -n ELSE n)
      k == Len(D)
      p == k + e
      x == p - 1
      zeros(c) == Repeat(<<Ch("0")>>, c)
  IN (IF n < 0 THEN <<Ch("-")>> ELSE <<>>)
     \o (IF n = 0 THEN D
         ELSE IF k <= p /\ p <= 21 THEN D \o zeros(p - k)
         ELSE IF 0 < p /\ p <= 21
              THEN SubSeq(D, 1, p) \o <<Ch(".")>> \o SubSeq(D, p + 1, k)
         ELSE IF -6 < p /\ p <= 0 THEN T(<<"0", ".">>) \o zeros(-p) \o D
         ELSE <<D[1]>>
              \o (IF k > 1 THEN <<Ch(".")>> \o SubSeq(D, 2, k) ELSE <<>>)
              \o <<Ch("e"), Ch(IF x < 0 THEN "-" ELSE "+")>>
              \o NatToText(IF x < 0 THEN -x ELSE x))

HexDigit(d) ==
  <<"0", "1", "2", "3", "4", "5", "6", "7", "8", "9", "a", "b", "c", "d", "e", "f">>[d + 1]

\* UnicodeEscape: \u and the four lower-case hexadecimal digits of the code unit.
UnicodeEscape(code) ==
  T(<<"\\", "u", HexDigit(code \div 4096), HexDigit((code \div 256) % 16),
      HexDigit((code \div 16) % 16), HexDigit(code % 16)>>)

\* QuoteJSONString for a code unit standing alone: the two-character escapes,
\* \uhhhh for the other units below U+0020 and for a surrogate, and the unit
\* itself otherwise.
EscapeCodeUnit(c) ==
  IF Len(c) = 1
  THEN CASE c = "\"" -> T(<<"\\", "\"">>)
         [] c = "\\" -> T(<<"\\", "\\">>)
         [] OTHER -> <<Ch(c)>>
  ELSE LET code == HexCode(c) IN
       CASE code = 8 -> T(<<"\\", "b">>)
         [] code = 9 -> T(<<"\\", "t">>)
         [] code = 10 -> T(<<"\\", "n">>)
         [] code = 12 -> T(<<"\\", "f">>)
         [] code = 13 -> T(<<"\\", "r">>)
         [] code = 34 -> T(<<"\\", "\"">>)
         [] code = 92 -> T(<<"\\", "\\">>)
         [] code < 32 \/ code \in 55296..57343 -> UnicodeEscape(code)
         [] OTHER -> <<Ch(c)>>

\* The escape of a run of one code unit, none of them half of a pair.
EscapeUnit(u) ==
  IF EscapeCodeUnit(u.c) = <<Ch(u.c)>> THEN <<u>>
  ELSE Repeat(EscapeCodeUnit(u.c), u.n)

\* A high surrogate followed by a low one is a character and stays as it is;
\* every other code unit is escaped on its own.
RECURSIVE EscapeText(_)
EscapeText(s) ==
  IF s = <<>> THEN <<>>
  ELSE IF Len(s) > 1 /\ IsHighSurrogate(s[1].c) /\ IsLowSurrogate(s[2].c)
       THEN Repeat(EscapeCodeUnit(s[1].c), s[1].n - 1)
            \o <<Ch(s[1].c), Ch(s[2].c)>>
            \o Repeat(EscapeCodeUnit(s[2].c), s[2].n - 1)
            \o EscapeText(Tail(Tail(s)))
       ELSE EscapeUnit(Head(s)) \o EscapeText(Tail(s))

Quote(s) == <<Ch("\"")>> \o EscapeText(s) \o <<Ch("\"")>>

\* What JSON.stringify returns for undefined: the value undefined, which is not
\* a text (no text has an empty run).
Undefined == <<Run("undefined", 0)>>

\* SerializeJSONArray writes null for an undefined element, SerializeJSONObject
\* leaves out a property whose value is undefined; sep is the separator due
\* before the next property written.
RECURSIVE Stringify(_)
RECURSIVE StringifyList(_, _)
RECURSIVE StringifyProps(_, _, _)
StringifyList(kids, i) ==
  IF i > Len(kids) THEN <<>>
  ELSE (IF i > 1 THEN <<Ch(",")>> ELSE <<>>)
       \o (IF kids[i].t = "undefined" THEN T(<<"n", "u", "l", "l">>)
           ELSE Stringify(kids[i]))
       \o StringifyList(kids, i + 1)

StringifyProps(obj, i, sep) ==
  IF i > Len(obj.keys) THEN <<>>
  ELSE IF obj.kids[i].t = "undefined" THEN StringifyProps(obj, i + 1, sep)
  ELSE sep \o Quote(obj.keys[i]) \o <<Ch(":")>> \o Stringify(obj.kids[i])
       \o StringifyProps(obj, i + 1, <<Ch(",")>>)

Stringify(value) ==
  CASE value.t = "string" -> Quote(value.s)
    [] value.t = "number" -> NumberToText(value.n, value.e)
    [] value.t = "-0" -> T(<<"0">>)
    [] value.t \in {"Infinity", "-Infinity"} -> T(<<"n", "u", "l", "l">>)
    [] value.t = "array" -> <<Ch("[")>> \o StringifyList(value.kids, 1) \o <<Ch("]")>>
    [] value.t = "object" -> <<Ch("{")>> \o StringifyProps(value, 1, <<>>) \o <<Ch("}")>>
    [] value.t = "true" -> T(<<"t", "r", "u", "e">>)
    [] value.t = "false" -> T(<<"f", "a", "l", "s", "e">>)
    [] value.t = "null" -> T(<<"n", "u", "l", "l">>)
    [] OTHER -> Undefined

\* ------------------------------------------------------ request validation

Hex ==
  {"0", "1", "2", "3", "4", "5", "6", "7", "8", "9",
   "a", "b", "c", "d", "e", "f", "A", "B", "C", "D", "E", "F"}

\* z.string().uuid(): five hyphen-separated groups of 8, 4, 4, 4 and 12 hex digits.
IsUuid(text) ==
  /\ Len(text) = 36
  /\ \A i \in 1..36 :
       /\ text[i].n = 1
       /\ IF i \in {9, 14, 19, 24} THEN text[i].c = "-" ELSE text[i].c \in Hex

IdKey == T(<<"i", "d">>)
ContentKey == T(<<"c", "o", "n", "t", "e", "n", "t">>)

\* body.key of a parsed body: undefined when the property is absent.
GetProperty(obj, k) ==
  LET i == IndexOf(obj.keys, k) IN IF i = 0 THEN JUndefined ELSE obj.kids[i]

\* z.record(z.unknown()) on an object: a copy of its properties, in order,
\* without a property named "__proto__"; the values are not looked into.
RECURSIVE RecordCopy(_, _, _)
RecordCopy(obj, i, output) ==
  IF i > Len(obj.keys) THEN output
  ELSE RecordCopy(obj, i + 1,
         IF obj.keys[i] = ProtoKey THEN output
         ELSE DefineProperty(output, obj.keys[i], obj.kids[i]))

\* RequestSchema.parse(body): [ok, id, content]; ok = FALSE stands for the
\* ZodError it throws.
RequestSchemaParse(json) ==
  LET id == GetProperty(json, IdKey)
      content == GetProperty(json, ContentKey)
  IN [ok |-> /\ json.t = "object"
             /\ (id.t = "undefined" \/ (id.t = "string" /\ IsUuid(id.s)))
             /\ content.t \in {"string", "object", "array"},
      id |-> id,
      content |-> IF content.t = "object"
                  THEN RecordCopy(content, 1, JObj(<<>>, <<>>))
                  ELSE content]

\* ------------------------------------------------------------ the store
\* templates_table of the D1 database: rows [id, content] in insertion order,
\* id unique.  run() of the INSERT statement appends the row or throws; first()
\* of the SELECT statement returns the row with that id or null.

UniqueMessage ==
  T(<<"D", "1", "_", "E", "R", "R", "O", "R", ":", " ", "U", "N", "I", "Q",
  "U", "E", " ", "c", "o", "n", "s", "t", "r", "a", "i", "n", "t", " ", "f",
  "a", "i", "l", "e", "d", ":", " ", "t", "e", "m", "p", "l", "a", "t", "e",
  "s", "_", "t", "a", "b", "l", "e", ".", "i", "d", ":", " ", "S", "Q", "L",
  "I", "T", "E", "_", "C", "O", "N", "S", "T", "R", "A", "I", "N", "T">>)
TableMessage ==
  T(<<"D", "1", "_", "E", "R", "R", "O", "R", ":", " ", "n", "o", " ", "s",
  "u", "c", "h", " ", "t", "a", "b", "l", "e", ":", " ", "t", "e", "m", "p",
  "l", "a", "t", "e", "s", "_", "t", "a", "b", "l", "e", ":", " ", "S", "Q",
  "L", "I", "T", "E", "_", "E", "R", "R", "O", "R">>)
NetworkMessage ==
  T(<<"N", "e", "t", "w", "o", "r", "k", " ", "c", "o", "n", "n", "e", "c",
  "t", "i", "o", "n", " ", "l", "o", "s", "t", ".">>)

NoRow == [found |-> FALSE, id |-> <<>>, content |-> <<>>]

HasId(rows, id) == \E i \in DOMAIN rows : rows[i].id = id

StoreInsert(rows, id, content) ==
  IF HasId(rows, id)
  THEN [ok |-> FALSE, rows |-> rows, message |-> UniqueMessage]
  ELSE [ok |-> TRUE, rows |-> Append(rows, [id |-> id, content |-> content]),
        message |-> <<>>]

StoreFirst(rows, id) ==
  IF HasId(rows, id)
  THEN LET i == CHOOSE j \in DOMAIN rows :
                  rows[j].id = id /\ \A k \in 1..(j - 1) : rows[k].id # id
       IN [found |-> TRUE, id |-> rows[i].id, content |-> rows[i].content]
  ELSE NoRow

\* ------------------------------------------------------------ the handler

LowerCase(c) ==
  CASE c = "U" -> "u" [] c = "N" -> "n" [] c = "I" -> "i" [] c = "Q" -> "q"
    [] c = "E" -> "e" [] c = "C" -> "c" [] c = "O" -> "o" [] c = "S" -> "s"
    [] c = "T" -> "t" [] c = "R" -> "r" [] c = "A" -> "a" [] c = "F" -> "f"
    [] c = "L" -> "l" [] c = "D" -> "d" [] OTHER -> c

ToLower(text) == [i \in DOMAIN text |-> [c |-> LowerCase(text[i].c), n |-> text[i].n]]

UniquePattern ==
  T(<<"u", "n", "i", "q", "u", "e", " ", "c", "o", "n", "s", "t", "r", "a",
  "i", "n", "t", " ", "f", "a", "i", "l", "e", "d">>)

\* Variant: the pattern without the i flag and without its upper-case branch.
IsUniqueViolationLowerOnly(message) == Contains(message, UniquePattern)

\* /unique constraint failed|UNIQUE constraint failed/i.test(message)
IsUniqueViolation(message) == Contains(ToLower(message), UniquePattern)

maxBytes == 900 * 1024

\* Variant: replace() with a string pattern, which replaces the first match only.
RECURSIVE ReplaceFirst(_, _, _)
ReplaceFirst(text, pat, repl) ==
  IF Len(text) < Len(pat) THEN text
  ELSE IF StartsWith(text, pat)
       THEN repl \o SubSeq(text, Len(pat) + 1, Len(text))
       ELSE <<Head(text)>> \o ReplaceFirst(Tail(text), pat, repl)

ScrubFirst(text) == ReplaceFirst(ReplaceFirst(text, OpenTag, OpenEsc), CloseTag, CloseEsc)

\* contentForDb: JSON.stringify, then the two global replaces.
Scrub(text) == ReplaceAll(ReplaceAll(text, OpenTag, OpenEsc), CloseTag, CloseEsc)

ContentForDb(sanitizedContent) == Scrub(Stringify(sanitizedContent))

\* Variant: the gate on contentForDb.length, in UTF-16 code units.
TooLargeByLength(contentForDb) == TextLen(contentForDb) > maxBytes

\* new Blob([contentForDb]).size > maxBytes
TooLarge(contentForDb) == ByteLen(contentForDb) > maxBytes

VARIABLES req, store

vars == <<req, store>>

NReq == 2
Slots == 1..NReq
DBs == {"A", "B"}

RandomUUID(c) ==
  T(<<c, c, c, c, c, c, c, c, "-", c, c, c, c, "-", "4", c, c, c, "-",
      "8", c, c, c, "-", c, c, c, c, c, c, c, c, c, c, c, c>>)
Uuid1 == RandomUUID("1")
Uuid2 == RandomUUID("2")
\* The values crypto.randomUUID() is let to return.
RandomUUIDs == {Uuid1, Uuid2}

\* What a store call can do besides working: throw with one of these messages.
StoreFailures == {TableMessage, NetworkMessage}
Works == <<>>

Terminal == {"Returned", "Error"}

\* One request: its handler (variant), its env.DB (db), the outcome of
\* request.json() (body), the handler's locals, and what an observer of the
\* request sees: the store calls it issued, what the store answered, the
\* console.error calls, the response status, and the requests that had been
\* answered when its handler started (after).
NewRequest(variant, db, body) ==
  [variant |-> variant, db |-> db, body |-> body, pc |-> "Received",
   id |-> JUndefined, content |-> JUndefined, sanitizedContent |-> JUndefined,
   contentForDb |-> <<>>, templateId |-> <<>>, result |-> NoRow,
   status |-> 0, logs |-> 0, calls |-> <<>>,
   insertOutcome |-> "none", lookupOutcome |-> "none", after |-> {}]

Absent ==
  [NewRequest("gated", "A", [parsed |-> FALSE, json |-> JUndefined])
     EXCEPT !.pc = "Absent"]

\* Variant: a catch block without the console.error.
CatchSilent(q, error) ==
  [q EXCEPT !.pc = "Error", !.status = IF error = "ZodError" THEN 400 ELSE 500]

\* catch (error): console.error, then 400 for a ZodError and 500 for the rest.
Catch(q, error) ==
  [q EXCEPT !.pc = "Error", !.logs = @ + 1,
            !.status = IF error = "ZodError" THEN 400 ELSE 500]

\* return Response.json(..., {status}) from inside the try block.
Reject(q, status) == [q EXCEPT !.pc = "Error", !.status = status]

\* const body = await request.json(); RequestSchema.parse(body)
Validate(r) ==
  /\ req[r].pc = "Received"
  /\ LET q == [req[r] EXCEPT !.after = {k \in Slots : req[k].pc \in Terminal}]
         parsed == RequestSchemaParse(q.body.json)
     IN req' = [req EXCEPT ![r] =
                  IF ~q.body.parsed THEN Catch(q, "SyntaxError")
                  ELSE IF ~parsed.ok THEN Catch(q, "ZodError")
                  ELSE [q EXCEPT !.pc = "Validated", !.id = parsed.id,
                                 !.content = parsed.content]]
  /\ UNCHANGED store

\* Variant: contentForDb taken from the content as validated.
SanitizeStoresRaw(r) ==
  /\ req[r].pc = "Validated"
  /\ req' = [req EXCEPT ![r] =
               [@ EXCEPT !.pc = "Sanitized",
                         !.sanitizedContent = sanitize(req[r].content),
                         !.contentForDb = ContentForDb(req[r].content)]]
  /\ UNCHANGED store

\* sanitizedContent and contentForDb; .replace on the undefined that
\* JSON.stringify returns for undefined throws a TypeError.
Sanitize(r) ==
  /\ req[r].pc = "Validated"
  /\ LET sanitizedContent == sanitize(req[r].content)
         q == [req[r] EXCEPT !.sanitizedContent = sanitizedContent]
     IN req' = [req EXCEPT ![r] =
                  IF Stringify(sanitizedContent) = Undefined
                  THEN Catch(q, "TypeError")
                  ELSE [q EXCEPT !.pc = "Sanitized",
                                 !.contentForDb = ContentForDb(sanitizedContent)]]
  /\ UNCHANGED store

\* const templateId = id ?? crypto.randomUUID()
TemplateId(id, uuid) == IF id.t = "undefined" THEN uuid ELSE id.s

\* templateId, then the size gate
SizeCheck(r) ==
  /\ req[r].pc = "Sanitized"
  /\ req[r].variant = "gated"
  /\ \E uuid \in RandomUUIDs :
       LET q == [req[r] EXCEPT !.templateId = TemplateId(req[r].id, uuid)]
       IN req' = [req EXCEPT ![r] =
                    IF TooLarge(q.contentForDb) THEN Reject(q, 413)
                    ELSE [q EXCEPT !.pc = "SizeChecked"]]
  /\ UNCHANGED store

\* What run() of the INSERT does: the failure the platform injects, or the
\* table's answer.
RunInsert(rows, id, content, failure) ==
  IF failure # Works
  THEN [ok |-> FALSE, rows |-> rows, message |-> failure]
  ELSE StoreInsert(rows, id, content)

InsertOutcome(res) ==
  IF res.ok THEN "ok"
  ELSE IF res.message = UniqueMessage THEN "unique" ELSE "failed"

\* Variant: a duplicate taken as already created, and read back.
AfterInsertIdempotent(q, res) ==
  LET called == [q EXCEPT !.calls = Append(@, [op |-> "insert", id |-> q.templateId]),
                          !.insertOutcome = InsertOutcome(res)]
  IN IF res.ok \/ IsUniqueViolation(res.message) THEN [called EXCEPT !.pc = "Inserted"]
     ELSE Catch(called, "Error")

\* Variant: a duplicate of a generated id sent back for a fresh id.
AfterInsertRetry(q, res) ==
  LET called == [q EXCEPT !.calls = Append(@, [op |-> "insert", id |-> q.templateId]),
                          !.insertOutcome = InsertOutcome(res)]
  IN IF res.ok THEN [called EXCEPT !.pc = "Inserted"]
     ELSE IF IsUniqueViolation(res.message)
          THEN IF q.id.t = "undefined"
               THEN [q EXCEPT !.pc = "Sanitized", !.templateId = <<>>,
                              !.calls = Append(@, [op |-> "insert", id |-> q.templateId])]
               ELSE Reject(called, 409)
     ELSE Catch(called, "Error")

\* The request after its insert call answered res (try/catch around run()).
AfterInsert(q, res) ==
  LET called == [q EXCEPT !.calls = Append(@, [op |-> "insert", id |-> q.templateId]),
                          !.insertOutcome = InsertOutcome(res)]
  IN IF res.ok THEN [called EXCEPT !.pc = "Inserted"]
     ELSE IF IsUniqueViolation(res.message) THEN Reject(called, 409)
     ELSE Catch(called, "Error")

\* Variant: INSERT OR REPLACE, which rewrites the row that holds the id.
InsertOrReplace(r) ==
  /\ req[r].pc = "SizeChecked"
  /\ LET q == req[r]
         rows == store[q.db]
         row == [id |-> q.templateId, content |-> q.contentForDb]
         res == [ok |-> TRUE, rows |-> rows, message |-> <<>>]
     IN /\ store' = [store EXCEPT ![q.db] =
                       IF HasId(rows, q.templateId)
                       THEN [i \in DOMAIN rows |->
                               IF rows[i].id = q.templateId THEN row ELSE rows[i]]
                       ELSE Append(rows, row)]
        /\ req' = [req EXCEPT ![r] = AfterInsert(q, res)]

\* await env.DB.prepare("INSERT ...").bind(templateId, contentForDb).run()
Insert(r) ==
  /\ req[r].pc = "SizeChecked"
  /\ \E failure \in {Works} \cup StoreFailures :
       LET q == req[r]
           res == RunInsert(store[q.db], q.templateId, q.contentForDb, failure)
       IN /\ store' = [store EXCEPT ![q.db] = res.rows]
          /\ req' = [req EXCEPT ![r] = AfterInsert(q, res)]

\* What first() of the SELECT does: the row with that id, null although the
\* table holds the row, or a thrown error.
RunFirst(rows, id, answer) ==
  IF answer = "throws" THEN [ok |-> FALSE, row |-> NoRow]
  ELSE IF answer = "null" THEN [ok |-> TRUE, row |-> NoRow]
  ELSE [ok |-> TRUE, row |-> StoreFirst(rows, id)]

\* The request after its lookup answered res: if (!result) throw, else on.
AfterLookup(q, res) ==
  LET called == [q EXCEPT !.calls = Append(@, [op |-> "lookup", id |-> q.templateId]),
                          !.lookupOutcome =
                             IF ~res.ok THEN "failed"
                             ELSE IF res.row.found THEN "found" ELSE "null"]
  IN IF ~res.ok \/ ~res.row.found THEN Catch(called, "Error")
     ELSE [called EXCEPT !.pc = "Confirmed", !.result = res.row]

\* await env.DB.prepare("SELECT ...").bind(templateId).first()
Lookup(r) ==
  /\ req[r].pc = "Inserted"
  /\ \E answer \in {"row", "null", "throws"} :
       LET q == req[r]
       IN req' = [req EXCEPT ![r] =
                    AfterLookup(q, RunFirst(store[q.db], q.templateId, answer))]
  /\ UNCHANGED store

\* return Response.json(result, { status: 201 })
Respond(r) ==
  /\ req[r].pc = "Confirmed"
  /\ req' = [req EXCEPT ![r] = [@ EXCEPT !.pc = "Returned", !.status = 201]]
  /\ UNCHANGED store

\* Variant: the ORM insert with the duplicate classified as the gated handler does.
AfterOrmInsertClassified(q, res) == AfterInsert(q, res)

\* The handler without the gate: templateId, then
\* await db.insert(templatesTable).values({id, content}); every failure of it
\* reaches the catch block.
AfterOrmInsert(q, res) ==
  LET called == [q EXCEPT !.calls = Append(@, [op |-> "insert", id |-> q.templateId]),
                          !.insertOutcome = InsertOutcome(res)]
  IN IF res.ok THEN [called EXCEPT !.pc = "Inserted"] ELSE Catch(called, "Error")

OrmInsert(r) ==
  /\ req[r].pc = "Sanitized"
  /\ req[r].variant = "simple"
  /\ \E uuid \in RandomUUIDs, failure \in {Works} \cup StoreFailures :
       LET q == [req[r] EXCEPT !.templateId = TemplateId(req[r].id, uuid)]
           res == RunInsert(store[q.db], q.templateId, q.contentForDb, failure)
       IN /\ store' = [store EXCEPT ![q.db] = res.rows]
          /\ req' = [req EXCEPT ![r] = AfterOrmInsert(q, res)]

Next ==
  \/ \E r \in Slots : Validate(r)
  \/ \E r \in Slots : Sanitize(r)
  \/ \E r \in Slots : SizeCheck(r)
  \/ \E r \in Slots : Insert(r)
  \/ \E r \in Slots : Lookup(r)
  \/ \E r \in Slots : Respond(r)

NextPair == Next \/ \E r \in Slots : OrmInsert(r)

\* ---------------------------------------------------------------- inputs

\* request.json() on a text whose members are written in the order of value:
\* JSON.parse creates the properties of an object one after the other.
RECURSIVE FromText(_)
RECURSIVE MembersFromText(_, _, _)
MembersFromText(value, i, output) ==
  IF i > Len(value.keys) THEN output
  ELSE MembersFromText(value, i + 1,
         DefineProperty(output, value.keys[i], FromText(value.kids[i])))

FromText(value) ==
  IF value.t = "array"
  THEN JArr([i \in DOMAIN value.kids |-> FromText(value.kids[i])])
  ELSE IF value.t = "object"
       THEN MembersFromText(value, 1, JObj(<<>>, <<>>))
       ELSE value

\* The body of a request whose text gives id and content (undefined: no such member).
MakeBody(id, content) ==
  [parsed |-> TRUE,
   json |-> JObj((IF id.t = "undefined" THEN <<>> ELSE <<IdKey>>)
                   \o (IF content.t = "undefined" THEN <<>> ELSE <<ContentKey>>),
                 (IF id.t = "undefined" THEN <<>> ELSE <<id>>)
                   \o (IF content.t = "undefined" THEN <<>> ELSE <<FromText(content)>>))]

\* request.json() rejected the body text.
Malformed == [parsed |-> FALSE, json |-> JUndefined]

MaxParts == 3
MaxWidth == 2
MaxDepth == 1

Fragments ==
  {OpenTag, CloseTag, T(<<"<">>), T(<<"s", "c", "r", "i", "p", "t", ">">>),
   T(<<"a">>), T(<<"\"">>), T(<<"\\">>), OpenEsc}

RECURSIVE Strings(_)
Strings(k) ==
  IF k = 0 THEN {<<>>}
  ELSE Strings(k - 1) \cup {s \o f : s \in Strings(k - 1), f \in Fragments}

Leaves == {JNull, JTrue, JNum(7), JInfinity, JStr(T(<<"a">>)), JStr(OpenTag)}
Keys == {T(<<"a">>), ElementScript, ProtoKey}

RECURSIVE KeySeqs(_)
KeySeqs(w) ==
  IF w = 0 THEN {<<>>}
  ELSE KeySeqs(w - 1)
       \cup {Append(ks, k) : ks \in {x \in KeySeqs(w - 1) : Len(x) = w - 1},
                              k \in Keys}

DistinctKeySeqs(w) ==
  {ks \in KeySeqs(w) : \A i, j \in DOMAIN ks : i # j => ks[i] # ks[j]}

Flat(w) ==
  {JArr(kids) : kids \in UNION {[1..k -> Leaves] : k \in 0..w}}
  \cup UNION {{JObj(ks, kids) : kids \in [1..Len(ks) -> Leaves]} :
                ks \in DistinctKeySeqs(w)}

\* Containers nested one level deeper: around v alone, and around v with a
\* sibling before it.
Wrap(v) ==
  {JArr(<<v>>), JArr(<<JNum(7), v>>), JObj(<<ElementScript, T(<<"a">>)>>, <<JNull, v>>)}
  \cup {JObj(<<k>>, <<v>>) : k \in Keys}

RECURSIVE Nest(_)
Nest(d) ==
  IF d = 0 THEN Flat(1)
  ELSE Nest(d - 1) \cup UNION {Wrap(v) : v \in Nest(d - 1)}

\* Contents at the ceiling: the stored text has maxBytes bytes, or one more.
Filler(k) == <<Run("x", k)>>
AtCeiling ==
  {JStr(Filler(maxBytes - 2)),
   JStr(Filler(maxBytes - 1)),
   JStr(OpenTag \o Filler(maxBytes - 2 - Len(OpenEsc))),
   JStr(OpenTag \o Filler(maxBytes - 1 - Len(OpenEsc))),
   JStr(Filler(maxBytes - 4) \o T(<<"U+00E9">>)),
   JStr(Filler(maxBytes - 3) \o T(<<"U+00E9">>)),
   JStr(Filler(maxBytes - 4) \o T(<<"U+0416">>)),
   JStr(Filler(maxBytes - 3) \o T(<<"U+0416">>)),
   JStr(Filler(maxBytes - 5) \o T(<<"U+20AC">>)),
   JStr(Filler(maxBytes - 4) \o T(<<"U+20AC">>)),
   JStr(Filler(maxBytes - 6) \o T(<<"U+D83D", "U+DE00">>)),
   JStr(Filler(maxBytes - 5) \o T(<<"U+D83D", "U+DE00">>)),
   JStr(Filler(maxBytes - 8) \o T(<<"U+D83D">>)),
   JStr(Filler(maxBytes - 7) \o T(<<"U+D83D">>)),
   JStr(Filler(maxBytes - 4) \o T(<<"U+000D">>)),
   JStr(Filler(maxBytes - 3) \o T(<<"U+000D">>)),
   JObj(<<ElementScript, T(<<"a">>)>>, <<JStr(Filler(maxBytes)), JNum(7)>>)}

MarkerKeys ==
  {JObj(<<OpenTag>>, <<JStr(CloseTag)>>),
   JObj(<<OpenTag, OpenEsc>>, <<JNum(1), JNum(2)>>)}

Contents ==
  {JStr(s) : s \in Strings(MaxParts)} \cup Flat(MaxWidth) \cup Nest(MaxDepth)
  \cup MarkerKeys

BadId == T(<<"n", "o", "t", "-", "a", "-", "u", "u", "i", "d">>)
EdgeIds == {JUndefined, JStr(Uuid1), JStr(BadId), JNull}
\* Strings and a key over code units that JSON.stringify escapes or that UTF-8
\* encodes in more than one byte: control characters, a Cyrillic letter, a
\* surrogate pair, lone surrogates.
Unusual ==
  {JStr(T(<<"a", "U+000D", "b">>)),
   JStr(T(<<"U+0008", "U+000C", "U+000A", "U+0009", "U+0000", "U+001F", "U+007F">>)),
   JStr(T(<<"U+0416", "U+D83D", "U+DE00", "U+D800">>)),
   JStr(T(<<"U+DE00", "U+D83D">>)),
   JObj(<<T(<<"U+000D", "U+0416">>)>>, <<JStr(T(<<"U+0080", "U+07FF", "U+0800">>))>>)}

\* Numbers at some depth: the infinities and negative zero, fractions, and
\* numbers that are written with an exponent.
Numbers ==
  {JArr(<<JInfinity>>),
   JArr(<<JNegZero>>),
   JObj(<<T(<<"a">>)>>, <<JArr(<<JNum(1), JNegInfinity>>)>>),
   JArr(<<JStr(OpenTag), JNegZero>>),
   JArr(<<JDec(15, -1), JDec(-5, -1), JNum(100), JNum(0), JDec(12345, -2)>>),
   JArr(<<JDec(1, 21), JDec(1, 20), JDec(1, -7), JDec(1, -6)>>),
   JArr(<<JDec(123456789, 10), JDec(123456789, 13)>>),
   JArr(<<JDec(-15, 299), JDec(17976931, 301), JDec(25, -309)>>),
   JObj(<<ElementScript, T(<<"a">>)>>,
        <<JInfinity, JArr(<<JDec(15, -1), JNum(-7), JTrue, JFalse>>)>>)}

\* Objects written with array-index keys after and among other keys.
IndexKeyed ==
  {JObj(<<T(<<"b">>), T(<<"1">>)>>, <<JNum(1), JNum(2)>>),
   JObj(<<T(<<"b">>), T(<<"1", "0">>), T(<<"9">>), T(<<"0", "1">>), ElementScript,
          MaxIndex, T(<<"4", "2", "9", "4", "9", "6", "7", "2", "9", "5">>),
          T(<<"0">>), T(<<"9">>)>>,
        <<JNum(1), JNum(2), JNum(3), JNum(4), JNum(5), JNum(6), JNum(7), JNull, JTrue>>),
   JArr(<<JObj(<<ProtoKey, T(<<"a">>), T(<<"2">>), T(<<"1">>)>>,
               <<JNum(1), JObj(<<T(<<"b">>), T(<<"7">>)>>, <<JNull, JTrue>>),
                 JNum(3), JNum(4)>>)>>)}

EdgeContents ==
  {JStr(T(<<"a">>)), JUndefined, JNull, JNum(7), JFalse} \cup AtCeiling \cup Unusual
  \cup IndexKeyed \cup Numbers

RichBodies == {MakeBody(JUndefined, c) : c \in Contents}

EdgeBodies ==
  {MakeBody(id, c) : id \in EdgeIds, c \in EdgeContents}
  \cup {Malformed, [parsed |-> TRUE, json |-> JArr(<<>>)],
        [parsed |-> TRUE, json |-> JNull]}

OldRow == [id |-> Uuid1, content |-> Quote(T(<<"o", "l", "d">>))]
InitialStores == {<<>>, <<OldRow>>}

Requests(first, second) ==
  [r \in Slots |-> IF r = 1 THEN first ELSE IF r = 2 THEN second ELSE Absent]

\* One request to the gated handler: any content on an empty table, or an edge
\* body on a table that is empty or holds a row.
Init ==
  \E body \in RichBodies \cup EdgeBodies, rows \in InitialStores :
    /\ body \in RichBodies => rows = <<>>
    /\ req = Requests(NewRequest("gated", "A", body), Absent)
    /\ store = [d \in DBs |-> IF d = "A" THEN rows ELSE <<>>]

Spec == Init /\ [][Next]_vars

\* NReq concurrent requests to the gated handler on an empty table: two that
\* share an explicit id and differ in content, one without an id, one with an
\* id that is no UUID, one over the ceiling.  The handler treats every request
\* alike, so the bodies are given to the slots in non-decreasing order.
ConcBodies ==
  <<MakeBody(JStr(Uuid1), JStr(T(<<"a">>))),
    MakeBody(JStr(Uuid1), JStr(OpenTag)),
    MakeBody(JUndefined, JStr(T(<<"a">>))),
    MakeBody(JStr(BadId), JStr(T(<<"a">>))),
    MakeBody(JStr(Uuid1), JStr(Filler(maxBytes - 1)))>>

InitConc ==
  /\ \E pick \in [Slots -> DOMAIN ConcBodies] :
       /\ \A r1, r2 \in Slots : r1 <= r2 => pick[r1] <= pick[r2]
       /\ req = [r \in Slots |-> NewRequest("gated", "A", ConcBodies[pick[r]])]
  /\ store = [d \in DBs |-> <<>>]

SpecConc == InitConc /\ [][Next]_vars

\* The same request given to both handlers, each on its own database, the two
\* tables equal at the start.
InitPair ==
  \E body \in EdgeBodies \cup {MakeBody(JUndefined, c) : c \in MarkerKeys},
     rows \in InitialStores :
    /\ req = Requests(NewRequest("gated", "A", body), NewRequest("simple", "B", body))
    /\ store = [d \in DBs |-> rows]

SpecPair == InitPair /\ [][NextPair]_vars

\* ================================================================ claims

Started(q) == q.pc \notin {"Absent", "Received"}
Computed(q) == q.pc \in {"Sanitized", "SizeChecked", "Inserted", "Confirmed", "Returned"}
                \/ (q.pc = "Error" /\ q.status \in {413, 409})
                \/ (q.pc = "Error" /\ q.calls # <<>>)

\* The content the client submitted (undefined when the body carries none).
Submitted(q) == GetProperty(q.body.json, ContentKey)

\* ---- C3 ----
\* W is V with the pairs keyed "elementScript" removed at every depth and
\* nothing else changed: arrays keep length and order, objects keep every other
\* key in order, leaves are equal.
RECURSIVE StripsOnlyBanned(_, _)
StripsOnlyBanned(V, W) ==
  IF V.t = "array"
  THEN /\ W.t = "array"
       /\ Len(W.kids) = Len(V.kids)
       /\ \A i \in DOMAIN V.kids : StripsOnlyBanned(V.kids[i], W.kids[i])
  ELSE IF V.t = "object"
  THEN LET kept == {i \in DOMAIN V.keys : V.keys[i] # ElementScript} IN
       /\ W.t = "object"
       /\ Len(W.keys) = Cardinality(kept)
       /\ \A i \in kept :
            LET j == Cardinality({h \in kept : h <= i}) IN
            /\ W.keys[j] = V.keys[i]
            /\ StripsOnlyBanned(V.kids[i], W.kids[j])
  ELSE W = V

RECURSIVE HasKey(_, _)
HasKey(V, k) ==
  \/ \E i \in DOMAIN V.keys : V.keys[i] = k
  \/ \E i \in DOMAIN V.kids : HasKey(V.kids[i], k)

\* C3: for every JSON value V the handler sanitizes, sanitize(V) has no key
\* "elementScript" at any depth and is V with exactly those pairs removed.
C3_SanitizeRemovesOnlyElementScript ==
  \A r \in Slots :
    Computed(req[r]) =>
      /\ ~HasKey(req[r].sanitizedContent, ElementScript)
      /\ StripsOnlyBanned(req[r].content, req[r].sanitizedContent)

\* ---- C4 ----
\* The positions at which pat occurs in text.
Occurrences(text, pat) ==
  {i \in 1..(Len(text) - Len(pat) + 1) : SubSeq(text, i, i + Len(pat) - 1) = pat}

Serialized(q) == Stringify(q.sanitizedContent)

Replaced(before, after) ==
  /\ Occurrences(after, OpenTag) = {}
  /\ Occurrences(after, CloseTag) = {}
  /\ Cardinality(Occurrences(after, OpenEsc))
       = Cardinality(Occurrences(before, OpenEsc)) + Cardinality(Occurrences(before, OpenTag))
  /\ Cardinality(Occurrences(after, CloseEsc))
       = Cardinality(Occurrences(before, CloseEsc)) + Cardinality(Occurrences(before, CloseTag))
  /\ Len(after) = Len(before)
       + (Len(OpenEsc) - Len(OpenTag)) * Cardinality(Occurrences(before, OpenTag))
       + (Len(CloseEsc) - Len(CloseTag)) * Cardinality(Occurrences(before, CloseTag))

\* C4: the text handed to the store holds neither "<script>" nor "</script>":
\* each occurrence in the serialized JSON (in string leaves and in keys) has
\* become its escaped form, and the replacing makes no new occurrence.
C4_StoredTextHasNoScriptMarker ==
  /\ \A r \in Slots :
       Computed(req[r]) => Replaced(Serialized(req[r]), req[r].contentForDb)
  /\ \A r \in Slots : \A i \in DOMAIN store[req[r].db] :
       (req[r].insertOutcome = "ok" /\ store[req[r].db][i].id = req[r].templateId)
         => /\ store[req[r].db][i].content = req[r].contentForDb
            /\ Occurrences(store[req[r].db][i].content, OpenTag) = {}
            /\ Occurrences(store[req[r].db][i].content, CloseTag) = {}

\* A stored row whose serialized content held both markers, one of them in a key.
C4_Witness ==
  \E r \in Slots :
    /\ req[r].insertOutcome = "ok"
    /\ \E i \in DOMAIN req[r].sanitizedContent.keys :
         Contains(req[r].sanitizedContent.keys[i], OpenTag)
    /\ Occurrences(Serialized(req[r]), OpenTag) # {}
    /\ Occurrences(Serialized(req[r]), CloseTag) # {}

\* ---- C5 ----
\* JSON.parse, as the reader of a 201 body applies it to the content column.
\* A parse result is [ok, v, i]: success, the value, the position after it.

\* The names of the code units U+0020 to U+007E.
Printable ==
  <<" ", "!", "\"", "#", "$", "%", "&", "'", "(", ")", "*", "+", ",", "-",
    ".", "/", "0", "1", "2", "3", "4", "5", "6", "7", "8", "9", ":", ";",
    "<", "=", ">", "?", "@", "A", "B", "C", "D", "E", "F", "G", "H", "I",
    "J", "K", "L", "M", "N", "O", "P", "Q", "R", "S", "T", "U", "V", "W",
    "X", "Y", "Z", "[", "\\", "]", "^", "_", "U+0060", "a", "b", "c", "d", "e",
    "f", "g", "h", "i", "j", "k", "l", "m", "n", "o", "p", "q", "r", "s",
    "t", "u", "v", "w", "x", "y", "z", "{", "|", "}", "~">>

HexUpper(d) ==
  <<"0", "1", "2", "3", "4", "5", "6", "7", "8", "9", "A", "B", "C", "D", "E", "F">>[d + 1]

\* The name of the code unit with this value.
UnitName(code) ==
  IF code \in 32..126 THEN Printable[code - 31]
  ELSE "U+" \o HexUpper(code \div 4096) \o HexUpper((code \div 256) % 16)
            \o HexUpper((code \div 16) % 16) \o HexUpper(code % 16)

PFail == [ok |-> FALSE, v |-> JUndefined, i |-> 0]
POk(v, i) == [ok |-> TRUE, v |-> v, i |-> i]
At(text, i) == IF i \in DOMAIN text THEN text[i].c ELSE "EOF"
Digits == {"0", "1", "2", "3", "4", "5", "6", "7", "8", "9"}
DigitValue(c) == CHOOSE d \in 0..9 : Digit(d) = c

RECURSIVE ParseString(_, _, _)
ParseString(text, i, acc) ==
  LET c == At(text, i) IN
  IF c = "EOF" THEN PFail
  ELSE IF c = "\"" THEN POk(JStr(acc), i + 1)
  ELSE IF c = "\\"
       THEN LET e == At(text, i + 1) IN
            IF e = "\"" \/ e = "\\" \/ e = "/"
            THEN ParseString(text, i + 2, Append(acc, Ch(e)))
            ELSE IF e = "b" THEN ParseString(text, i + 2, Append(acc, Ch("U+0008")))
            ELSE IF e = "t" THEN ParseString(text, i + 2, Append(acc, Ch("U+0009")))
            ELSE IF e = "n" THEN ParseString(text, i + 2, Append(acc, Ch("U+000A")))
            ELSE IF e = "f" THEN ParseString(text, i + 2, Append(acc, Ch("U+000C")))
            ELSE IF e = "r" THEN ParseString(text, i + 2, Append(acc, Ch("U+000D")))
            ELSE IF e = "u" /\ \A j \in 2..5 : At(text, i + j) \in Hex
                 THEN ParseString(text, i + 6,
                        Append(acc, Ch(UnitName(
                          4096 * HexValue(At(text, i + 2)) + 256 * HexValue(At(text, i + 3))
                            + 16 * HexValue(At(text, i + 4)) + HexValue(At(text, i + 5))))))
            ELSE PFail
  ELSE IF Len(c) = 6 /\ HexCode(c) < 32 THEN PFail
  ELSE ParseString(text, i + 1, Append(acc, text[i]))

RECURSIVE Pow10(_)
Pow10(k) == IF k = 0 THEN 1 ELSE 10 * Pow10(k - 1)

\* The digits from position i on.  The digits read so far are those of m
\* followed by z zeros; count is the number of digits read here.
RECURSIVE ParseDigits(_, _, _, _, _)
ParseDigits(text, i, m, z, count) ==
  IF At(text, i) \in Digits
  THEN LET d == DigitValue(At(text, i)) IN
       IF d = 0
       THEN ParseDigits(text, i + 1, m, IF m = 0 THEN 0 ELSE z + 1, count + 1)
       ELSE ParseDigits(text, i + 1, m * Pow10(z + 1) + d, 0, count + 1)
  ELSE [m |-> m, z |-> z, count |-> count, i |-> i]

\* The number that the digits of m written before the decimal exponent e
\* denote, as a double: zero keeps its sign, a value past the largest double
\* is an infinity, one below the smallest is zero.
NumberValue(neg, m, e) ==
  LET k == Len(NatToText(m))
      p == k + e
      zero == IF neg THEN JNegZero ELSE JNum(0)
  IN IF m = 0 \/ p < -323 THEN zero
     ELSE IF p > 309 \/ (p = 309 /\ k <= 9 /\ m * Pow10(9 - k) >= 179769314)
          THEN IF neg THEN JNegInfinity ELSE JInfinity
     ELSE JDec(IF neg THEN -m ELSE m, e)

\* number = [-] int [frac] [exp]
ParseNumber(text, i) ==
  LET neg == At(text, i) = "-"
      j == IF neg THEN i + 1 ELSE i
      int == IF At(text, j) = "0" THEN [m |-> 0, z |-> 0, count |-> 1, i |-> j + 1]
             ELSE ParseDigits(text, j, 0, 0, 0)
      hasFrac == At(text, int.i) = "."
      frac == IF hasFrac THEN ParseDigits(text, int.i + 1, int.m, int.z, 0)
              ELSE [m |-> int.m, z |-> int.z, count |-> 0, i |-> int.i]
      hasExp == At(text, frac.i) \in {"e", "E"}
      signed == At(text, frac.i + 1) \in {"+", "-"}
      exp == IF hasExp
             THEN ParseDigits(text, frac.i + (IF signed THEN 2 ELSE 1), 0, 0, 0)
             ELSE [m |-> 0, z |-> 0, count |-> 0, i |-> frac.i]
      x == IF exp.count > 4 THEN 9999 ELSE exp.m * Pow10(exp.z)
      e == frac.z - frac.count
             + (IF hasExp /\ At(text, frac.i + 1) = "-" THEN -x ELSE x)
  IN IF int.count = 0 \/ (hasFrac /\ frac.count = 0) \/ (hasExp /\ exp.count = 0)
     THEN PFail
     ELSE POk(NumberValue(neg, frac.m, e), exp.i)

ParseLiteral(text, i, word, v) ==
  IF Len(text) >= i + Len(word) - 1 /\ SubSeq(text, i, i + Len(word) - 1) = T(word)
  THEN POk(v, i + Len(word))
  ELSE PFail

RECURSIVE ParseValue(_, _)
RECURSIVE ParseElements(_, _, _)
RECURSIVE ParseMembers(_, _, _)
ParseElements(text, i, acc) ==
  LET p == ParseValue(text, i) IN
  IF ~p.ok THEN PFail
  ELSE IF At(text, p.i) = "," THEN ParseElements(text, p.i + 1, Append(acc, p.v))
  ELSE IF At(text, p.i) = "]" THEN POk(JArr(Append(acc, p.v)), p.i + 1)
  ELSE PFail

ParseMembers(text, i, acc) ==
  IF At(text, i) # "\"" THEN PFail
  ELSE LET k == ParseString(text, i + 1, <<>>) IN
       IF ~k.ok \/ At(text, k.i) # ":" THEN PFail
       ELSE LET p == ParseValue(text, k.i + 1) IN
            IF ~p.ok THEN PFail
            ELSE LET obj == DefineProperty(acc, k.v.s, p.v) IN
                 IF At(text, p.i) = "," THEN ParseMembers(text, p.i + 1, obj)
                 ELSE IF At(text, p.i) = "}" THEN POk(obj, p.i + 1)
                 ELSE PFail

ParseValue(text, i) ==
  LET c == At(text, i) IN
  CASE c = "\"" -> ParseString(text, i + 1, <<>>)
    [] c = "[" -> IF At(text, i + 1) = "]" THEN POk(JArr(<<>>), i + 2)
                  ELSE ParseElements(text, i + 1, <<>>)
    [] c = "{" -> IF At(text, i + 1) = "}" THEN POk(JObj(<<>>, <<>>), i + 2)
                  ELSE ParseMembers(text, i + 1, JObj(<<>>, <<>>))
    [] c = "t" -> ParseLiteral(text, i, <<"t", "r", "u", "e">>, JTrue)
    [] c = "f" -> ParseLiteral(text, i, <<"f", "a", "l", "s", "e">>, JFalse)
    [] c = "n" -> ParseLiteral(text, i, <<"n", "u", "l", "l">>, JNull)
    [] c = "-" \/ c \in Digits -> ParseNumber(text, i)
    [] OTHER -> PFail

JsonParse(text) ==
  LET p == ParseValue(text, 1) IN
  IF p.ok /\ p.i = Len(text) + 1 THEN p.v ELSE JUndefined

HasMarker(text) == Contains(text, OpenTag) \/ Contains(text, CloseTag)

\* The value holds, at some depth, a number for which JSON has no text of its
\* own: an infinity (what 1e999 in a body denotes) or negative zero.
RECURSIVE HasUnwritableNumber(_)
HasUnwritableNumber(V) ==
  \/ V.t \in {"-0", "Infinity", "-Infinity"}
  \/ \E i \in DOMAIN V.kids : HasUnwritableNumber(V.kids[i])

\* V as a reader gets it back: in every string and key each marker replaced
\* by its escaped form (keys that become equal are one property, which keeps
\* the place of the first and the value of the last), every infinity replaced
\* by null and every negative zero by 0.
RECURSIVE ReadBack(_)
RECURSIVE ReadBackMembers(_, _, _)
ReadBackMembers(V, i, output) ==
  IF i > Len(V.keys) THEN output
  ELSE ReadBackMembers(V, i + 1,
         DefineProperty(output, Scrub(V.keys[i]), ReadBack(V.kids[i])))

ReadBack(V) ==
  CASE V.t = "string" -> JStr(Scrub(V.s))
    [] V.t \in {"Infinity", "-Infinity"} -> JNull
    [] V.t = "-0" -> JNum(0)
    [] V.t = "array" -> JArr([i \in DOMAIN V.kids |-> ReadBack(V.kids[i])])
    [] V.t = "object" -> ReadBackMembers(V, 1, JObj(<<>>, <<>>))
    [] OTHER -> V

\* C5 as stated: the content of every 201 body parses to sanitize(submitted
\* content), script-tag markers or not.
C5_RoundTripAlways ==
  \A r \in Slots :
    req[r].status = 201 =>
      JsonParse(req[r].result.content) = sanitize(Submitted(req[r]))

\* C5, amended: the content of a 201 body parses to sanitize(submitted content)
\* (numbers compared as Object.is does) exactly when the serialization of that
\* value holds no script-tag marker and the value holds no infinity and no
\* negative zero; in every case it parses to that value with the markers in
\* strings and keys replaced by their escaped forms, the infinities by null and
\* the negative zeros by 0.
C5_RoundTripUnlessRewritten ==
  \A r \in Slots :
    req[r].status = 201 =>
      LET expected == sanitize(Submitted(req[r])) IN
      /\ JsonParse(req[r].result.content).t # "undefined"
      /\ (JsonParse(req[r].result.content) = expected)
           = (~HasMarker(Stringify(expected)) /\ ~HasUnwritableNumber(expected))
      /\ JsonParse(req[r].result.content) = ReadBack(expected)

\* A 201 whose submitted content lost a key (and with it an infinity) to
\* sanitize and parses back to what is left, a number with a fraction included.
C5_Witness ==
  \E r \in Slots :
    /\ req[r].status = 201
    /\ sanitize(Submitted(req[r])) # Submitted(req[r])
    /\ HasUnwritableNumber(Submitted(req[r]))
    /\ \E i \in DOMAIN sanitize(Submitted(req[r])).kids :
         \E j \in DOMAIN sanitize(Submitted(req[r])).kids[i].kids :
           /\ sanitize(Submitted(req[r])).kids[i].kids[j].t = "number"
           /\ sanitize(Submitted(req[r])).kids[i].kids[j].e < 0
    /\ JsonParse(req[r].result.content) = sanitize(Submitted(req[r]))

\* ---- C2 ----
\* The text the handler would store for the submitted content.
WouldStore(q) == Scrub(Stringify(sanitize(Submitted(q))))

PastGate(q) ==
  q.pc \in {"SizeChecked", "Inserted", "Confirmed", "Returned"} \/ q.calls # <<>>

\* C2: the gate measures the bytes of the sanitized and scrubbed text: a request
\* answers 413 exactly when that text is longer than 900*1024 bytes, a text of
\* exactly 900*1024 bytes goes on to the insert, and a request that answers 413
\* has issued no store call.
C2_GateOnStoredBytes ==
  \A r \in Slots :
    LET q == req[r] IN
    (q.variant = "gated" /\ Started(q)) =>
      /\ q.status = 413 => (ByteLen(WouldStore(q)) > 900 * 1024 /\ q.calls = <<>>)
      /\ PastGate(q) => ByteLen(WouldStore(q)) <= 900 * 1024
      /\ (q.status = 413 \/ PastGate(q)) => q.contentForDb = WouldStore(q)

\* A 201 for a stored text of exactly 900*1024 bytes, which the scrub made
\* longer than the serialized content.
C2_Witness ==
  \E r \in Slots :
    /\ req[r].status = 201
    /\ ByteLen(req[r].result.content) = 900 * 1024
    /\ ByteLen(Stringify(Submitted(req[r]))) < 900 * 1024

\* ---- C6 ----
ValidBody(json) ==
  LET id == GetProperty(json, IdKey)
      content == GetProperty(json, ContentKey)
  IN /\ json.t = "object"
     /\ id.t # "undefined" => (id.t = "string" /\ IsUuid(id.s))
     /\ content.t \notin {"undefined", "number", "-0", "Infinity", "-Infinity",
                          "true", "false", "null"}

\* The status the first failing stage decides, from the body and from what the
\* store answered.
StageStatus(q) ==
  IF ~q.body.parsed THEN 500
  ELSE IF ~ValidBody(q.body.json) THEN 400
  ELSE IF ByteLen(WouldStore(q)) > 900 * 1024 THEN 413
  ELSE IF q.insertOutcome = "unique" THEN 409
  ELSE IF q.insertOutcome = "failed" THEN 500
  ELSE IF q.lookupOutcome \in {"null", "failed"} THEN 500
  ELSE 201

\* C6: a request is answered once, with the status of the first stage that
\* fails: 500 body parse, 400 validation, 413 size, 409 uniqueness violation,
\* 500 other insert failure or a read-back without a row, 201 otherwise.
C6_StatusOfFirstFailingStage ==
  \A r \in Slots :
    LET q == req[r] IN
    (q.variant = "gated" /\ q.pc # "Absent") =>
      /\ (q.status # 0) = (q.pc \in Terminal)
      /\ q.pc \in Terminal => q.status = StageStatus(q)
      /\ q.status = 201 => (q.insertOutcome = "ok" /\ q.lookupOutcome = "found")
      /\ q.status = 409 => q.insertOutcome = "unique"
      /\ q.insertOutcome = "unique" => q.status = 409
      /\ q.insertOutcome = "failed" => q.status = 500

\* A duplicate of a caller-supplied id answered 409.
C6_Witness ==
  \E r \in Slots :
    /\ req[r].status = 409
    /\ req[r].insertOutcome = "unique"
    /\ req[r].id.t = "string"

\* ---- C7 ----
\* C7 as stated: every response other than 201 is preceded by a log event.
C7_EveryFailureLogged ==
  \A r \in Slots :
    req[r].status \in {400, 409, 413, 500} => req[r].logs >= 1

\* C7, amended: the failures that reach the catch block (400 and 500) are
\* logged once before the response; the 413 and the 409 are returned from
\* inside the try block without a log event.
C7_CaughtFailuresLogged ==
  \A r \in Slots :
    /\ req[r].status \in {400, 500} => req[r].logs = 1
    /\ req[r].status \in {0, 201, 409, 413} => req[r].logs = 0

\* A store failure of the insert, logged and answered 500.
C7_Witness ==
  \E r \in Slots :
    /\ req[r].status = 500
    /\ req[r].insertOutcome = "failed"
    /\ req[r].logs = 1

\* ---- C8 ----
StepAfter(pc) ==
  CASE pc = "Received" -> "Validated"
    [] pc = "Validated" -> "Sanitized"
    [] pc = "Sanitized" -> "SizeChecked"
    [] pc = "SizeChecked" -> "Inserted"
    [] pc = "Inserted" -> "Confirmed"
    [] pc = "Confirmed" -> "Returned"
    [] OTHER -> "None"

CallsOf(q, op) == {i \in DOMAIN q.calls : q.calls[i].op = op}

\* One step of one request, before (p) and after (q).
OrderedStep(p, q) ==
  /\ p.pc \in Terminal \cup {"Absent"} => q = p
  /\ q.pc # p.pc => q.pc \in {StepAfter(p.pc), "Error"}
  /\ p.templateId # <<>> => q.templateId = p.templateId
  /\ \/ q.calls = p.calls
     \/ /\ Len(q.calls) = Len(p.calls) + 1
        /\ SubSeq(q.calls, 1, Len(p.calls)) = p.calls
        /\ q.calls[Len(q.calls)].id = q.templateId
        /\ q.calls[Len(q.calls)].op = "insert" => (p.pc = "SizeChecked" /\ p.calls = <<>>)
        /\ q.calls[Len(q.calls)].op = "lookup" =>
             /\ p.pc = "Inserted"
             /\ p.insertOutcome = "ok"
             /\ p.calls = <<[op |-> "insert", id |-> q.templateId]>>
  /\ Cardinality(CallsOf(q, "insert")) <= 1
  /\ Cardinality(CallsOf(q, "lookup")) <= 1

\* C8: a request goes through Received, Validated, Sanitized, SizeChecked,
\* Inserted, Confirmed, Returned in that order, or from any of them to Error;
\* Returned and Error are final; it issues at most one insert, only after the
\* size check passed, and at most one lookup, only after its insert succeeded
\* and for the same id; after a failure it issues no call and keeps its id.
C8_OrderedStepsNoRetry ==
  [][\A r \in Slots : OrderedStep(req[r], req'[r])]_vars

\* A duplicate of a server-generated id: answered 409 after a single insert call.
C8_Witness ==
  \E r \in Slots :
    /\ req[r].pc = "Error"
    /\ req[r].status = 409
    /\ req[r].id.t = "undefined"
    /\ req[r].calls = <<[op |-> "insert", id |-> req[r].templateId]>>

\* ---- C1 ----
\* r carries the explicit id and passes the size gate.
InGroup(r, id) ==
  /\ req[r].pc # "Absent"
  /\ req[r].body.parsed
  /\ GetProperty(req[r].body.json, IdKey) = JStr(id)
  /\ ValidBody(req[r].body.json)
  /\ ByteLen(WouldStore(req[r])) <= 900 * 1024

Group(id) == {r \in Slots : InGroup(r, id)}

StoreFailed(q) == q.insertOutcome = "failed" \/ q.lookupOutcome \in {"null", "failed"}

\* No other request took the id for itself.
OnlyGroupUses(id) ==
  \A r \in Slots : req[r].templateId = id => InGroup(r, id)

RowsWith(rows, id) == {i \in DOMAIN rows : rows[i].id = id}

OneCreated(G) ==
  /\ Cardinality({r \in G : req[r].status = 201}) <= 1
  /\ \A r \in G : req[r].pc \in Terminal => req[r].status \in {201, 409}
  /\ \A r2 \in G :
       (req[r2].pc \in Terminal /\ req[r2].after \cap G # {}) => req[r2].status = 409
  /\ (G # {} /\ \A r \in G : req[r].pc \in Terminal) =>
       Cardinality({r \in G : req[r].status = 201}) = 1

\* C1: of the requests that carry the same explicit valid id and pass the gate,
\* in any interleaving on a store that fails only for uniqueness, one answers 201
\* and every other one 409 (one that starts after another was answered gets
\* 409), and the table never holds two rows with one id.
C1_OneCreatedOthersConflict ==
  /\ \A d \in DBs : \A i \in DOMAIN store[d] :
       Cardinality(RowsWith(store[d], store[d][i].id)) = 1
  /\ \A id \in RandomUUIDs :
       (OnlyGroupUses(id) /\ \A r \in Slots : InGroup(r, id) => ~StoreFailed(req[r]))
         => OneCreated(Group(id))

\* Two requests with the same explicit id that overlapped: one 201, one 409.
C1_Witness ==
  \E r1, r2 \in Group(Uuid1) :
    /\ OnlyGroupUses(Uuid1)
    /\ req[r1].status = 201
    /\ req[r2].status = 409
    /\ r1 \notin req[r2].after
    /\ r2 \notin req[r1].after

\* ---- C9 ----
\* The table after a step is the table before it, or that with one row
\* appended by the request whose insert has just succeeded.
OnlyAppends(d) ==
  \/ store'[d] = store[d]
  \/ \E r \in Slots :
       /\ req[r].db = d
       /\ req[r].insertOutcome = "none"
       /\ req'[r].insertOutcome = "ok"
       /\ store'[d] = Append(store[d], [id |-> req'[r].templateId,
                                         content |-> req'[r].contentForDb])

\* C9: a stored row is never changed or removed; a request changes the table
\* only by appending the row of its own successful insert; the step that
\* answers 400, 413 or 409 leaves the table as it was.
C9_RowsCreatedOnceNeverChanged ==
  [][/\ \A d \in DBs : OnlyAppends(d)
     /\ \A r \in Slots :
          (req[r].status = 0 /\ req'[r].status \in {400, 413, 409}) => store' = store
     /\ \A r \in Slots :
          req'[r].insertOutcome \in {"unique", "failed"} => store' = store \/ req[r] = req'[r]
    ]_vars

\* A 409 for a request whose content differs from the stored row of that id.
C9_Witness ==
  \E r \in Slots :
    /\ req[r].status = 409
    /\ \E i \in DOMAIN store[req[r].db] :
         /\ store[req[r].db][i].id = req[r].templateId
         /\ store[req[r].db][i].content # req[r].contentForDb

\* ---- C10 ----
Gated == req[1]
Simple == req[2]

\* Both runs were given the same generated id and the same store failures.
SameEnvironment ==
  /\ Gated.templateId = Simple.templateId
  /\ (Gated.insertOutcome = "failed") = (Simple.insertOutcome = "failed")
  /\ Gated.lookupOutcome = Simple.lookupOutcome

\* C10: on the same request from the same table, the handler without the gate
\* answers as the gated one does (status, row, table) unless the gated one
\* answers 413 or 409; on a 413 request it has attempted the insert, on a 409
\* request it answers 500.
C10_SimpleAgreesExceptGateAndDuplicate ==
  (Gated.pc \in Terminal /\ Simple.pc \in Terminal) =>
    /\ (SameEnvironment /\ Gated.status \notin {413, 409}) =>
         /\ Simple.status = Gated.status
         /\ Simple.result = Gated.result
         /\ store["B"] = store["A"]
    /\ Gated.status = 413 =>
         (CallsOf(Simple, "insert") # {} /\ Simple.status \in {201, 500})
    /\ (SameEnvironment /\ Gated.status = 409) =>
         (Simple.status = 500 /\ Simple.insertOutcome = "unique" /\ store["B"] = store["A"])
    /\ Simple.status # Gated.status =>
         (~SameEnvironment \/ Gated.status \in {413, 409})

\* Both handlers answered 201 with the same row after a caller-supplied id.
C10_Witness ==
  /\ Gated.status = 201
  /\ Simple.status = 201
  /\ Simple.result = Gated.result
  /\ Gated.result.found
  /\ Gated.variant = "gated" /\ Simple.variant = "simple"
====
